---- MODULE Spec2Model ----
(***************************************************************************)
(* Model of the social-listening search pipeline:                          *)
(*   - the platform Sources (RedditAdapter, HackerNewsAdapter) and the     *)
(*     signal detector they share (BasePlatformAdapter.detectSignals),     *)
(*   - the orchestrator (SearchService.search / searchRanked /             *)
(*     searchWithAI),                                                      *)
(*   - the Intent Scorer's batch loop (IntentScoringService.scoreBatch),   *)
(*   - the per-Source rate limiter (BasePlatformAdapter.checkRateLimit).   *)
(*                                                                         *)
(* The specifications of the module share its variables:                  *)
(*   Spec         one search()/searchRanked() or searchPlatform() request: *)
(*                the fan-out over the requested platforms, one action per *)
(*                HTTP response;                                           *)
(*   SpecAI       one searchWithAI() request, one action per LLM response; *)
(*   SpecScorer   scorePost() / scoreBatch() called on their own;          *)
(*   SpecSignals  detectSignals() called on a post text and a criteria;    *)
(*   SpecRate     concurrent callers of checkRateLimit on the Sources;     *)
(*   SpecRateLive SpecRate with the clock advancing and timers firing.     *)
(* An absent / null / undefined JavaScript value is the empty sequence     *)
(* <<>>, a present value v is <<v>>.                                       *)
(***************************************************************************)
EXTENDS Integers, Sequences, FiniteSets, TLC

VARIABLES
    request,        \* search(): <<>> before the call, else <<[platforms, criteria]>>
    calls,          \* search(): one record per callback of targetPlatforms.map
    searchResults,  \* search(): the array Promise.all resolves to (slot i of callback i)
    errors,         \* search(): the errors array
    searchOut,      \* search(): its return value, <<>> until it returns
    rankedOut,      \* searchRanked(): its return value, <<>> until it returns
    platformOut,    \* searchPlatform(): its return value, <<>> until it returns
    completed,      \* history: callback indices in the order they settled
    enabled,        \* IntentScoringService.enabled
    aiReq,          \* searchWithAI(): <<>> or <<[options, searchResult, postsToScore, postsToSkip]>>
    batch,          \* scoreBatch(): loop position, in-flight scorePost calls, results
    aiOut,          \* searchWithAI(): its return value, <<>> until it returns
    scorerLog,      \* history: the post lists searchWithAI passed to scoreBatch
    scoreCall,      \* scorePost() called on its own: <<>> or [post, pc, result]
    llmCalls,       \* history: number of POST /chat/completions requests issued
    sigIn,          \* detectSignals(): the post text and criteria it is called with
    sigOut,         \* detectSignals(): the values its calls returned, in call order
    now,            \* Date.now(), in milliseconds since the Sources were constructed
    limiter,        \* the Source's counters: [requestCount, lastResetTime]
    callers,        \* per caller of checkRateLimit: its position in the function
    windowStart,    \* history, per Source: the reset that opened the observed window
    windowAdmits    \* history, per Source: requests admitted in the observed window

searchVars == <<request, calls, searchResults, errors, searchOut, rankedOut, platformOut,
               completed>>
aiVars == <<enabled, aiReq, batch, aiOut, scorerLog, scoreCall, llmCalls>>
rateVars == <<now, limiter, callers, windowStart, windowAdmits>>
signalVars == <<sigIn, sigOut>>
vars == <<searchVars, aiVars, rateVars, signalVars>>

----------------------------------------------------------------------------
(* Generic helpers                                                         *)

Range(s) == {s[i] : i \in 1..Len(s)}

Min(a, b) == IF a <= b THEN a ELSE b

Max(a, b) == IF a >= b THEN a ELSE b

\* Array.prototype.slice(0, n) for an integer n >= 0
Slice(s, n) == SubSeq(s, 1, Min(n, Len(s)))

\* Array.prototype.filter
RECURSIVE Filter(_, _)
Filter(s, keep) ==
    IF s = <<>> THEN <<>>
    ELSE (IF Head(s) \in keep THEN <<Head(s)>> ELSE <<>>) \o Filter(Tail(s), keep)

\* All sequences without repetition over S of length at most n
RECURSIVE InjSeqs(_, _)
InjSeqs(S, n) ==
    IF n = 0 THEN {<<>>}
    ELSE LET shorter == InjSeqs(S, n - 1)
         IN shorter \cup {Append(s, x) : s \in shorter, x \in S}

NoRepeat(s) == \A i, j \in 1..Len(s) : i # j => s[i] # s[j]

----------------------------------------------------------------------------
(* Source registry: src/src/adapters/index.js                              *)

\* Object.keys(adapters)
getPlatformNames == <<"reddit", "hackernews">>

\* Property names the object literal `adapters` inherits from
\* Object.prototype: adapters[name] is a function, not a Source
InheritedNames == {"constructor"}

\* adapters[platform]: <<>> (undefined) when the object has no such property
getAdapter(platform) ==
    IF platform \in Range(getPlatformNames) THEN <<platform>>
    ELSE IF platform \in InheritedNames THEN <<"Object.prototype">>
    ELSE <<>>

\* adapter.search is a function: the value is one of the registered Sources
hasSearch(adapter) == adapter # <<>> /\ adapter[1] \in Range(getPlatformNames)

\* Message of the TypeError of calling adapter.search when it is undefined
NotAFunction == "adapter.search is not a function"

----------------------------------------------------------------------------
(* Signal detector: BasePlatformAdapter.detectSignals                      *)
(* A text is modelled by the set of lower-case phrases that occur in it    *)
(* as substrings; String.includes is membership in that set.               *)

toLowerCase(s) ==
    CASE s = "CRM" -> "crm"
      [] s = "Looking For" -> "looking for"
      [] OTHER -> s

Includes(text, phrase) == phrase \in text

\* (criteria.list || []).filter(kw => text.includes(kw.toLowerCase()))
RECURSIVE Matched(_, _)
Matched(list, text) ==
    IF list = <<>> THEN <<>>
    ELSE (IF Includes(text, toLowerCase(Head(list))) THEN <<Head(list)>> ELSE <<>>)
            \o Matched(Tail(list), text)

\* A rounding that sends halves down
RoundHalfDown(num, den) ==
    LET capped == IF num <= 100 * den THEN num ELSE 100 * den
    IN (2 * capped + den - 1) \div (2 * den)

\* Math.round(Math.min(score, 100)) for the rational score num/den (den > 0):
\* Math.round rounds halves up
RoundMin100(num, den) ==
    LET capped == Min(num, 100 * den)
    IN (2 * capped + den) \div (2 * den)

\* A detector that adds a point for every call made before
detectSignalsCounting(text, criteria) ==
    [ matchedKeywords |-> Matched(criteria.keywords, text),
      matchedIntentKeywords |-> Matched(criteria.intentKeywords, text),
      matchedPainKeywords |-> Matched(criteria.painKeywords, text),
      matchedCompetitors |-> Matched(criteria.competitors, text),
      relevanceScore |-> 40 * Len(Matched(criteria.keywords, text)) + Len(sigOut) ]

detectSignals(text, criteria) ==
    LET mk == Matched(criteria.keywords, text)
        mi == Matched(criteria.intentKeywords, text)
        mp == Matched(criteria.painKeywords, text)
        mc == Matched(criteria.competitors, text)
        \* criteria.keywords?.length || 1
        totalKeywords == IF Len(criteria.keywords) = 0 THEN 1 ELSE Len(criteria.keywords)
        \* score, in units of 1/(2*totalKeywords)
        num == 80 * Len(mk)
               + totalKeywords * ( Min(25 * Len(mi), 50)
                                 + Min(20 * Len(mp), 40)
                                 + Min(30 * Len(mc), 30) )
    IN [ matchedKeywords |-> mk,
         matchedIntentKeywords |-> mi,
         matchedPainKeywords |-> mp,
         matchedCompetitors |-> mc,
         relevanceScore |-> RoundMin100(num, 2 * totalKeywords) ]

----------------------------------------------------------------------------
(* Bounds and request fixtures                                             *)

\* Longest remote listing one HTTP response carries
MaxHits == 2

\* Largest criteria.maxResults a request sets
MaxResultsBound == 2

\* Messages of the errors axios rejects with (transport failure, timeout)
HttpErrors == {"Network Error", "timeout of 10000ms exceeded"}

\* The platforms argument of a request: <<>> is null (all registered)
PlatformArgs ==
    { <<>>,
      << <<>> >>,
      << <<"reddit">> >>,
      << <<"hackernews">> >>,
      << <<"twitter">> >>,
      << <<"hackernews", "reddit">> >>,
      << <<"twitter", "reddit">> >>,
      << <<"hackernews", "twitter">> >>,
      << <<"hackernews", "hackernews">> >>,
      << <<"constructor", "hackernews">> >> }

\* The platform argument of searchPlatform
PlatformIdArgs == {"reddit", "hackernews", "twitter", "constructor"}

\* criteria.platformFilters.reddit.subreddits
SubredditArgs == { <<>>, <<"SaaS">>, <<"SaaS", "startups">> }

\* criteria.maxResults: <<>> when the request does not set it
MaxResultsArgs == { <<>> } \cup { <<k>> : k \in 1..MaxResultsBound }

Criteria(maxResults, subreddits) ==
    [ keywords |-> <<"CRM">>,
      intentKeywords |-> <<"Looking For">>,
      painKeywords |-> <<"frustrated">>,
      competitors |-> <<>>,
      maxResults |-> maxResults,
      subreddits |-> subreddits,
      minScore |-> 0 ]

CriteriaArgs ==
    { Criteria(m, subs) : m \in MaxResultsArgs, subs \in SubredditArgs }

\* What the remote platforms hold. r1/h1 read "Looking for a CRM", r2/h2
\* "so frustrated", r3/h3 match nothing, r4 is a moderator-pinned CRM post.
RedditListing == {"r1", "r2", "r3", "r4"}

HNListing == {"h1", "h2", "h3"}

TextOf(id) ==
    CASE id \in {"r1", "h1"} -> {"looking for", "crm"}
      [] id \in {"r2", "h2"} -> {"frustrated"}
      [] id = "r4" -> {"crm"}
      [] OTHER -> {}

\* One child of response.data.children (Reddit) / one hit (Hacker News)
RemoteItem(id) ==
    [ id |-> id, text |-> TextOf(id), score |-> 5,
      stickied |-> (id = "r4"), distinguished |-> FALSE, over_18 |-> FALSE ]

RemoteListings(platform) ==
    LET ids == IF platform = "reddit" THEN RedditListing ELSE HNListing
    IN { [k \in 1..Len(s) |-> RemoteItem(s[k])] :
            s \in {t \in InjSeqs(ids, MaxHits) : NoRepeat(t)} }

\* Outcome of one HTTP call: the promise rejects with a message or resolves
\* with a listing
HttpOutcomes(platform) ==
    { [ok |-> FALSE, message |-> m, items |-> <<>>] : m \in HttpErrors }
    \cup { [ok |-> TRUE, message |-> "", items |-> l] : l \in RemoteListings(platform) }

RedditOutcomes == HttpOutcomes("reddit")

HackerNewsOutcomes == HttpOutcomes("hackernews")

----------------------------------------------------------------------------
(* Sources: BasePlatformAdapter, RedditAdapter, HackerNewsAdapter          *)

errorResult(platform, error) ==
    [ success |-> FALSE, platform |-> platform, posts |-> <<>>,
      totalFound |-> 0, error |-> error ]

successResult(platform, posts, totalFound) ==
    [ success |-> TRUE, platform |-> platform, posts |-> posts,
      totalFound |-> totalFound ]

\* normalizePost followed by normalized.signals = detectSignals(normalized, criteria).
\* ref is the identity of the object created (callback, sub-query, position).
normalizePost(item, platform, ref, criteria) ==
    [ ref |-> ref, id |-> item.id, platform |-> platform, text |-> item.text,
      signals |-> detectSignals(item.text, criteria) ]

\* A Source that returns every normalized post
KeepAll(posts) == posts

\* .filter(post => post.signals.relevanceScore > 0)
RelevantOnly(posts) ==
    Filter(posts, {p \in Range(posts) : p.signals.relevanceScore > 0})

\* RedditAdapter.processResponse
processResponse(items, criteria, call, sub) ==
    LET kept == Filter(items, {it \in Range(items) :
                        ~(it.score < criteria.minScore)
                        /\ ~(it.stickied \/ it.distinguished)
                        /\ ~it.over_18})
        normalized == [k \in 1..Len(kept) |->
                        normalizePost(kept[k], "reddit", <<call, sub, k>>, criteria)]
    IN RelevantOnly(normalized)

\* HackerNewsAdapter.search: response.data.hits.map(...).filter(...)
processHits(items, criteria, call) ==
    LET normalized == [k \in 1..Len(items) |->
                        normalizePost(items[k], "hackernews", <<call, 0, k>>, criteria)]
    IN RelevantOnly(normalized)

\* const maxResults = criteria.maxResults || 25
DefaultMaxResults == 25

adapterMaxResults(criteria) ==
    IF criteria.maxResults = <<>> THEN DefaultMaxResults ELSE criteria.maxResults[1]

\* a.signals?.relevanceScore || 0
relevanceOf(post) ==
    IF "signals" \in DOMAIN post THEN post.signals.relevanceScore ELSE 0

\* The comparator with its operands swapped (lowest score first)
compareRelevanceAscending(a, b) == relevanceOf(a) - relevanceOf(b)

\* The comparator of searchSubreddits and searchRanked: negative when a
\* sorts before b
compareRelevance(a, b) == relevanceOf(b) - relevanceOf(a)

\* Array.prototype.sort is stable: x goes after every element it does not
\* sort strictly before
RECURSIVE InsertByRelevance(_, _)
InsertByRelevance(sorted, x) ==
    IF sorted = <<>> THEN <<x>>
    ELSE IF compareRelevance(x, Head(sorted)) < 0 THEN <<x>> \o sorted
    ELSE <<Head(sorted)>> \o InsertByRelevance(Tail(sorted), x)

RECURSIVE SortFrom(_, _)
SortFrom(sorted, rest) ==
    IF rest = <<>> THEN sorted
    ELSE SortFrom(InsertByRelevance(sorted, Head(rest)), Tail(rest))

\* A sort that is not stable: equal elements come out in reverse order
sortTiesReversed(posts) ==
    SortFrom(<<>>, [k \in 1..Len(posts) |-> posts[Len(posts) + 1 - k]])

sortByRelevance(posts) == SortFrom(<<>>, posts)

----------------------------------------------------------------------------
(* SearchService.search: src/src/search.service.js                         *)

PendingSlot == [state |-> "pending", value |-> <<>>]

\* The callback's "return result" after "await adapter.search(criteria)"
callbackReturn(result) ==
    [ slot |-> [state |-> "fulfilled", value |-> <<result>>], pushed |-> <<>> ]

\* A callback without the try/catch around adapter.search: the rejection
\* becomes the callback's and Promise.all's
callbackRethrow(platform, message) ==
    [ slot |-> [state |-> "rejected", value |-> <<>>], pushed |-> <<>> ]

\* The callback's catch: errors.push({ platform, error: error.message }); return null
callbackCatch(platform, message) ==
    [ slot |-> [state |-> "fulfilled", value |-> <<>>],
      pushed |-> << [platform |-> platform, error |-> message] >> ]

\* Results stored in the order the callbacks settle (first free slot)
settleInCompletionOrder(slots, i, slot) ==
    LET free == CHOOSE k \in 1..Len(slots) :
                    /\ slots[k].state = "pending"
                    /\ \A j \in 1..Len(slots) : slots[j].state = "pending" => k <= j
    IN [slots EXCEPT ![free] = slot]

\* Promise.all resolves to the values in the order of the promises
promiseAllSettle(slots, i, slot) == [slots EXCEPT ![i] = slot]

\* if (!adapter) { errors.push({ platform, error: `Unknown platform: ${platform}` }); return null }
unknownPlatformError(platform) ==
    [ platform |-> platform, error |-> "Unknown platform: " \o platform ]

\* One callback of targetPlatforms.map, run up to its first await
startCallback(platform, criteria) ==
    IF getAdapter(platform) = <<>>
    THEN [ platform |-> platform, pc |-> "settled", sub |-> 0, allPosts |-> <<>>,
           adapter |-> "none", value |-> <<>>, reason |-> <<>>, remoteFailed |-> FALSE,
           fetched |-> <<>> ]
    ELSE IF ~hasSearch(getAdapter(platform))
    THEN \* adapter.search(criteria) throws before any await
         [ platform |-> platform, pc |-> "settled", sub |-> 0, allPosts |-> <<>>,
           adapter |-> "notAnAdapter", value |-> <<>>, reason |-> <<NotAFunction>>,
           remoteFailed |-> FALSE, fetched |-> <<>> ]
    ELSE [ platform |-> platform, pc |-> "http",
           \* if (filters.subreddits?.length > 0) searchSubreddits else searchGlobal
           sub |-> IF platform = "reddit" /\ Len(criteria.subreddits) > 0 THEN 1 ELSE 0,
           allPosts |-> <<>>,
           adapter |-> "pending", value |-> <<>>, reason |-> <<>>, remoteFailed |-> FALSE,
           \* history: per subreddit request of searchSubreddits, its outcome
           fetched |-> <<>> ]

\* The errors the callbacks push before their first await, in callback order
RECURSIVE immediateErrors(_)
immediateErrors(target) ==
    IF target = <<>> THEN <<>>
    ELSE (IF getAdapter(Head(target)) = <<>> THEN << unknownPlatformError(Head(target)) >>
          ELSE IF ~hasSearch(getAdapter(Head(target)))
          THEN callbackCatch(Head(target), NotAFunction).pushed
          ELSE <<>>)
         \o immediateErrors(Tail(target))

\* search(criteria, platforms): the synchronous part, up to await Promise.all
search(platforms, criteria) ==
    /\ request = <<>>
    /\ LET \* const targetPlatforms = platforms || getPlatformNames()
           target == IF platforms = <<>> THEN getPlatformNames ELSE platforms[1]
           idx == [i \in 1..Len(target) |-> i]
           immediate == SelectSeq(idx, LAMBDA i : ~hasSearch(getAdapter(target[i])))
       IN /\ request' = << [kind |-> "search", platforms |-> platforms,
                            targetPlatforms |-> target, criteria |-> criteria] >>
          /\ calls' = [i \in 1..Len(target) |-> startCallback(target[i], criteria)]
          /\ searchResults' = [i \in 1..Len(target) |->
                                IF getAdapter(target[i]) = <<>>
                                THEN [state |-> "fulfilled", value |-> <<>>]
                                ELSE IF ~hasSearch(getAdapter(target[i]))
                                THEN callbackCatch(target[i], NotAFunction).slot
                                ELSE PendingSlot]
          /\ errors' = immediateErrors(target)
          /\ completed' = immediate
    /\ UNCHANGED <<searchOut, rankedOut, platformOut, aiVars, rateVars, signalVars>>

\* searchPlatform: { success: false, platform, posts: [], error: `Unknown platform: ...` }
unknownPlatformResult(platform) ==
    [ success |-> FALSE, platform |-> platform, posts |-> <<>>,
      error |-> "Unknown platform: " \o platform ]

\* searchPlatform(criteria, platform): to its return for an id without an
\* adapter, to the throw when the adapter has no search, else into
\* adapter.search(criteria), whose promise it returns
searchPlatform(platform, criteria) ==
    /\ request = <<>>
    /\ request' = << [kind |-> "searchPlatform", platforms |-> << <<platform>> >>,
                      targetPlatforms |-> <<platform>>, criteria |-> criteria] >>
    /\ IF getAdapter(platform) = <<>>
       THEN /\ platformOut' = << [threw |-> FALSE, reason |-> <<>>,
                                  value |-> << unknownPlatformResult(platform) >>] >>
            /\ UNCHANGED calls
       ELSE IF ~hasSearch(getAdapter(platform))
       THEN /\ platformOut' = << [threw |-> TRUE, reason |-> <<NotAFunction>>,
                                  value |-> <<>>] >>
            /\ UNCHANGED calls
       ELSE /\ calls' = << startCallback(platform, criteria) >>
            /\ UNCHANGED platformOut
    /\ UNCHANGED <<searchResults, errors, searchOut, rankedOut, completed,
                   aiVars, rateVars, signalVars>>

\* adapter.search(criteria) of callback i, whose record is c, resolved with
\* result: the callback returns it
AdapterResolvesFrom(c, i, result, failed) ==
    LET cb == callbackReturn(result)
    IN /\ calls' = [calls EXCEPT ![i] = [c EXCEPT !.pc = "settled",
                        !.adapter = "resolved", !.value = <<result>>,
                        !.remoteFailed = failed]]
       /\ IF request[1].kind = "search"
          THEN /\ searchResults' = promiseAllSettle(searchResults, i, cb.slot)
               /\ errors' = errors \o cb.pushed
               /\ completed' = Append(completed, i)
               /\ UNCHANGED platformOut
          ELSE \* searchPlatform's promise resolves with the adapter's result
               /\ platformOut' = << [threw |-> FALSE, reason |-> <<>>,
                                     value |-> <<result>>] >>
               /\ UNCHANGED <<searchResults, errors, completed>>

AdapterResolves(i, result, failed) == AdapterResolvesFrom(calls[i], i, result, failed)

\* adapter.search(criteria) rejected with an error: the callback's catch runs
AdapterRejects(i, message) ==
    LET cb == callbackCatch(calls[i].platform, message)
    IN /\ calls' = [calls EXCEPT ![i] = [@ EXCEPT !.pc = "settled",
                        !.adapter = "rejected", !.reason = <<message>>,
                        !.remoteFailed = TRUE]]
       /\ IF request[1].kind = "search"
          THEN /\ searchResults' = promiseAllSettle(searchResults, i, cb.slot)
               /\ errors' = errors \o cb.pushed
               /\ completed' = Append(completed, i)
               /\ UNCHANGED platformOut
          ELSE \* searchPlatform's promise rejects with the adapter's error
               /\ platformOut' = << [threw |-> TRUE, reason |-> <<message>>,
                                     value |-> <<>>] >>
               /\ UNCHANGED <<searchResults, errors, completed>>

\* RedditAdapter.search -> searchGlobal: the response of client.get('/search.json').
\* search() returns searchGlobal's promise without awaiting it, so its
\* try/catch is left before the promise settles: a rejection is search()'s.
RedditGlobalResponse(i) ==
    /\ request # <<>>
    /\ i \in 1..Len(calls)
    /\ calls[i].pc = "http" /\ calls[i].platform = "reddit" /\ calls[i].sub = 0
    /\ \E o \in RedditOutcomes :
         IF o.ok
         THEN AdapterResolves(i,
                successResult("reddit",
                    processResponse(o.items, request[1].criteria, i, 0),
                    Len(o.items)),
                FALSE)
         ELSE AdapterRejects(i, o.message)
    /\ UNCHANGED <<request, searchOut, rankedOut, aiVars, rateVars, signalVars>>

\* A loop that a failed request ends
stopAtFailure(sub, ok, subreddits) == ok /\ sub < Len(subreddits)

\* for (const subreddit of subreddits): after the request of subreddit
\* number `sub` (answered or caught), the loop goes on while one is left
moreSubreddits(sub, ok, subreddits) == sub < Len(subreddits)

\* RedditAdapter.searchSubreddits: the response of one subreddit's request.
\* A failure is caught inside the loop and only logged.
RedditSubredditResponse(i) ==
    /\ request # <<>>
    /\ i \in 1..Len(calls)
    /\ calls[i].pc = "http" /\ calls[i].platform = "reddit" /\ calls[i].sub >= 1
    /\ \E o \in RedditOutcomes :
         LET criteria == request[1].criteria
             c == calls[i]
             posts == IF o.ok THEN processResponse(o.items, criteria, i, c.sub) ELSE <<>>
             allPosts == c.allPosts \o posts
             failed == c.remoteFailed \/ ~o.ok
             fetched == Append(c.fetched, [ok |-> o.ok, posts |-> posts])
             sortedPosts == Slice(sortByRelevance(allPosts), adapterMaxResults(criteria))
         IN IF moreSubreddits(c.sub, o.ok, criteria.subreddits)
            THEN /\ calls' = [calls EXCEPT ![i] = [@ EXCEPT !.sub = c.sub + 1,
                                !.allPosts = allPosts, !.remoteFailed = failed,
                                !.fetched = fetched]]
                 /\ UNCHANGED <<searchResults, errors, completed, platformOut>>
            ELSE AdapterResolvesFrom([c EXCEPT !.allPosts = allPosts, !.fetched = fetched],
                    i, successResult("reddit", sortedPosts, Len(allPosts)), failed)
    /\ UNCHANGED <<request, searchOut, rankedOut, aiVars, rateVars, signalVars>>

\* HackerNewsAdapter.search: the response of client.get(endpoint); the whole
\* body is inside try/catch and the catch returns errorResult
HackerNewsResponse(i) ==
    /\ request # <<>>
    /\ i \in 1..Len(calls)
    /\ calls[i].pc = "http" /\ calls[i].platform = "hackernews"
    /\ \E o \in HackerNewsOutcomes :
         IF o.ok
         THEN AdapterResolves(i,
                successResult("hackernews",
                    processHits(o.items, request[1].criteria, i), Len(o.items)),
                FALSE)
         ELSE AdapterResolves(i, errorResult("hackernews", o.message), TRUE)
    /\ UNCHANGED <<request, searchOut, rankedOut, aiVars, rateVars, signalVars>>

RECURSIVE SumLen(_)
SumLen(results) ==
    IF results = <<>> THEN 0 ELSE Len(Head(results).posts) + SumLen(Tail(results))

\* A collection that keeps the success=true results only
RECURSIVE collectSuccessful(_)
collectSuccessful(slots) ==
    IF slots = <<>> THEN <<>>
    ELSE (IF Head(slots).value # <<>> /\ Head(slots).value[1].success
          THEN Head(slots).value ELSE <<>>)
         \o collectSuccessful(Tail(slots))

\* for (const result of searchResults) if (result) results.push(result)
RECURSIVE collectResults(_)
collectResults(slots) ==
    IF slots = <<>> THEN <<>> ELSE Head(slots).value \o collectResults(Tail(slots))

\* search(): totalPosts and the returned object
searchReturnValue(targetPlatforms, results, errs) ==
    [ threw |-> FALSE,
      success |-> (Len(errs) = 0),
      platforms |-> targetPlatforms,
      results |-> results,
      totalPosts |-> SumLen(results),
      errors |-> errs ]

\* search(): after await Promise.all(searchPromises); Promise.all rejects
\* when one of the callbacks rejected
search_Return ==
    /\ request # <<>>
    /\ request[1].kind = "search"
    /\ searchOut = <<>>
    /\ \A i \in 1..Len(searchResults) : searchResults[i].state # "pending"
    /\ IF \E i \in 1..Len(searchResults) : searchResults[i].state = "rejected"
       THEN searchOut' = << [threw |-> TRUE] >>
       ELSE searchOut' = << searchReturnValue(request[1].targetPlatforms,
                                              collectResults(searchResults), errors) >>
    /\ UNCHANGED <<request, calls, searchResults, errors, rankedOut, platformOut, completed,
                   aiVars, rateVars, signalVars>>

----------------------------------------------------------------------------
(* SearchService.searchRanked                                              *)

\* for (const platformResult of result.results) allPosts.push(...platformResult.posts)
RECURSIVE mergePosts(_)
mergePosts(results) ==
    IF results = <<>> THEN <<>> ELSE Head(results).posts \o mergePosts(Tail(results))

\* byPlatform[platformResult.platform] = platformResult.posts.length (last write wins)
countByPlatform(results) ==
    [ p \in {results[k].platform : k \in 1..Len(results)} |->
        LET last == CHOOSE k \in 1..Len(results) :
                        /\ results[k].platform = p
                        /\ \A j \in 1..Len(results) : results[j].platform = p => j <= k
        IN Len(results[last].posts) ]

\* criteria.maxResults ? allPosts.slice(0, criteria.maxResults) : allPosts
limitPosts(allPosts, criteria) ==
    IF criteria.maxResults # <<>> /\ criteria.maxResults[1] # 0
    THEN Slice(allPosts, criteria.maxResults[1])
    ELSE allPosts

\* The value searchRanked returns for the value `result` of search();
\* allPosts is the local merged and sorted array, kept beside the returned fields
searchRankedResult(result, criteria) ==
    LET allPosts == sortByRelevance(mergePosts(result.results))
    IN [ success |-> result.success,
         posts |-> limitPosts(allPosts, criteria),
         totalFound |-> Len(allPosts),
         byPlatform |-> countByPlatform(result.results),
         errors |-> result.errors,
         allPosts |-> allPosts ]

searchRanked_Return ==
    /\ searchOut # <<>>
    /\ ~searchOut[1].threw
    /\ rankedOut = <<>>
    /\ rankedOut' = << searchRankedResult(searchOut[1], request[1].criteria) >>
    /\ UNCHANGED <<request, calls, searchResults, errors, searchOut, platformOut, completed,
                   aiVars, rateVars, signalVars>>

----------------------------------------------------------------------------
(* Specification of one search / searchRanked request                      *)

IdleAI ==
    /\ enabled = FALSE
    /\ aiReq = <<>>
    /\ batch = <<>>
    /\ aiOut = <<>>
    /\ scorerLog = <<>>
    /\ scoreCall = <<>>
    /\ llmCalls = 0

IdleSignals ==
    /\ sigIn = <<>>
    /\ sigOut = <<>>

IdleRate ==
    /\ now = 0
    /\ limiter = <<>>
    /\ callers = <<>>
    /\ windowStart = <<>>
    /\ windowAdmits = <<>>

IdleSearch ==
    /\ request = <<>>
    /\ calls = <<>>
    /\ searchResults = <<>>
    /\ errors = <<>>
    /\ searchOut = <<>>
    /\ rankedOut = <<>>
    /\ platformOut = <<>>
    /\ completed = <<>>

Init == IdleSearch /\ IdleAI /\ IdleRate /\ IdleSignals

Next ==
    \/ \E platforms \in PlatformArgs, criteria \in CriteriaArgs : search(platforms, criteria)
    \/ \E platform \in PlatformIdArgs, criteria \in CriteriaArgs :
            searchPlatform(platform, criteria)
    \/ \E i \in 1..Len(calls) : RedditGlobalResponse(i)
    \/ \E i \in 1..Len(calls) : RedditSubredditResponse(i)
    \/ \E i \in 1..Len(calls) : HackerNewsResponse(i)
    \/ search_Return
    \/ searchRanked_Return

Spec == Init /\ [][Next]_vars

----------------------------------------------------------------------------
(* Intent Scorer: IntentScoringService (src/unnamed/part_000)              *)
(* A JavaScript value of a parsed LLM response is [t, v]: a number (v in   *)
(* hundredths, so 0.9 is 90 and 85 is 8500), a string, an array or         *)
(* undefined.                                                              *)

Num(v) == [t |-> "number", v |-> v]

Str(v) == [t |-> "string", v |-> v]

Arr(v) == [t |-> "array", v |-> v]

Undefined == [t |-> "undefined", v |-> 0]

\* The number a numeric string starts with, in hundredths; <<>> when
\* parseInt / parseFloat give NaN
NumericPrefix(str) ==
    CASE str = "85" -> <<8500>>
      [] str = "85%" -> <<8500>>
      [] str = "0.9" -> <<90>>
      [] OTHER -> <<>>

\* ToNumber(str), the conversion a comparison with a number applies to a
\* string, in hundredths; <<>> for NaN: the whole string must be a numeral
ToNumber(str) ==
    CASE str = "85" -> <<8500>>
      [] str = "0.9" -> <<90>>
      [] OTHER -> <<>>

\* parseInt(x): the integer part (toward zero), <<>> for NaN
parseInt(x) ==
    LET trunc(h) == IF h >= 0 THEN h \div 100 ELSE -((-h) \div 100)
    IN CASE x.t = "number" -> <<trunc(x.v)>>
         [] x.t = "string" ->
              IF NumericPrefix(x.v) = <<>> THEN <<>> ELSE <<trunc(NumericPrefix(x.v)[1])>>
         [] OTHER -> <<>>

\* parseFloat(x), in hundredths, <<>> for NaN
parseFloat(x) ==
    CASE x.t = "number" -> <<x.v>>
      [] x.t = "string" -> NumericPrefix(x.v)
      [] OTHER -> <<>>

\* score >= bound for the raw (not yet parsed) score: a comparison with
\* undefined, NaN or a non-numeric string is false
RawAtLeast(x, bound) ==
    CASE x.t = "number" -> x.v >= 100 * bound
      [] x.t = "string" ->
            ToNumber(x.v) # <<>> /\ ToNumber(x.v)[1] >= 100 * bound
      [] OTHER -> FALSE

scoreToLevel(score) ==
    IF RawAtLeast(score, 80) THEN "HIGH"
    ELSE IF RawAtLeast(score, 50) THEN "MEDIUM"
    ELSE IF RawAtLeast(score, 20) THEN "LOW"
    ELSE "NONE"

\* [...].includes(x) ? x : fallback
OneOf(x, allowed, fallback) ==
    IF x.t = "string" /\ x.v \in allowed THEN x.v ELSE fallback

normalizeResult(result) ==
    LET int == parseInt(result.score)
        \* parseInt(result.score) || 0
        score == IF int = <<>> \/ int = <<0>> THEN 0 ELSE int[1]
        float == parseFloat(result.confidence)
        \* parseFloat(result.confidence) || 0.5
        confidence == IF float = <<>> \/ float = <<0>> THEN 50 ELSE float[1]
    IN [ score |-> << Min(100, Max(0, score)) >>,
         level |-> << OneOf(result.level, {"HIGH", "MEDIUM", "LOW", "NONE"},
                            scoreToLevel(result.score)) >>,
         confidence |-> << Min(100, Max(0, confidence)) >>,
         buyingSignals |-> IF result.buyingSignals.t = "array"
                           THEN result.buyingSignals.v ELSE <<>>,
         painPoints |-> IF result.painPoints.t = "array"
                        THEN result.painPoints.v ELSE <<>>,
         urgency |-> << OneOf(result.urgency,
                              {"IMMEDIATE", "SHORT_TERM", "EXPLORING", "NONE"}, "NONE") >>,
         recommendedAction |-> << OneOf(result.recommendedAction,
                              {"CONTACT_NOW", "NURTURE", "MONITOR", "SKIP"}, "MONITOR") >>,
         summary |-> IF result.summary.t = "string" /\ result.summary.v # ""
                     THEN result.summary.v ELSE "No summary available" ]

getDisabledResult ==
    [ score |-> <<>>, level |-> <<>>, confidence |-> <<>>,
      buyingSignals |-> <<>>, painPoints |-> <<>>,
      urgency |-> <<>>, recommendedAction |-> <<>>,
      summary |-> "AI scoring disabled - set OPENAI_API_KEY to enable",
      error |-> "AI_DISABLED" ]

getErrorResult(errorMessage) ==
    [ score |-> <<>>, level |-> <<>>, confidence |-> <<>>,
      buyingSignals |-> <<>>, painPoints |-> <<>>,
      urgency |-> <<>>, recommendedAction |-> <<>>,
      summary |-> "AI scoring failed: " \o errorMessage,
      error |-> "AI_ERROR" ]

\* { ...post, intentAnalysis }
withAnalysis(post, intentAnalysis) ==
    [ f \in DOMAIN post \cup {"intentAnalysis"} |->
        IF f = "intentAnalysis" THEN intentAnalysis ELSE post[f] ]

\* An assignment to the post itself: post.intentAnalysis = intentAnalysis
assignAnalysis(post, intentAnalysis) ==
    [ made |-> withAnalysis(post, intentAnalysis),
      post |-> withAnalysis(post, intentAnalysis) ]

\* return { ...post, intentAnalysis }: the object made, and the object
\* `post` as the statement leaves it (a spread reads it and writes nothing)
spreadCopy(post, intentAnalysis) ==
    [ made |-> withAnalysis(post, intentAnalysis), post |-> post ]

\* Parsed bodies the model answers with
LLMBodies ==
    { [ score |-> Num(8500), level |-> Str("HIGH"), confidence |-> Num(90),
        buyingSignals |-> Arr(<<"looking for">>), painPoints |-> Arr(<<>>),
        urgency |-> Str("IMMEDIATE"), recommendedAction |-> Str("CONTACT_NOW"),
        summary |-> Str("Actively looking for a CRM") ],
      [ score |-> Num(3000), level |-> Str("LOW"), confidence |-> Num(50),
        buyingSignals |-> Arr(<<>>), painPoints |-> Arr(<<"frustrated">>),
        urgency |-> Str("EXPLORING"), recommendedAction |-> Str("MONITOR"),
        summary |-> Undefined ] }

\* Messages of the errors the OpenAI client rejects with
LLMErrors == {"timeout of 30000ms exceeded"}

\* A body none of whose fields is present
EmptyBody ==
    [ score |-> Undefined, level |-> Undefined, confidence |-> Undefined,
      buyingSignals |-> Undefined, painPoints |-> Undefined,
      urgency |-> Undefined, recommendedAction |-> Undefined, summary |-> Undefined ]

\* response.data.choices[0].message.content: the text of a JSON object with
\* the fields `body`, text that is not JSON, the text "null", or the text of
\* a JSON value that is neither an object nor null (a number, a string)
ObjectText(body) == [json |-> "object", body |-> body]

InvalidText == [json |-> "invalid", body |-> EmptyBody]

NullText == [json |-> "null", body |-> EmptyBody]

PrimitiveText == [json |-> "primitive", body |-> EmptyBody]

\* JSON.parse(content): throws a SyntaxError on text that is not JSON; a
\* property read on a primitive gives undefined, on null it throws
JSONparse(content) ==
    CASE content.json = "invalid" ->
            [threw |-> TRUE, isNull |-> FALSE, value |-> EmptyBody,
             message |-> "Unexpected token o in JSON at position 1"]
      [] content.json = "null" ->
            [threw |-> FALSE, isNull |-> TRUE, value |-> EmptyBody, message |-> ""]
      [] OTHER ->
            [threw |-> FALSE, isNull |-> FALSE, value |-> content.body, message |-> ""]

\* Outcome of one POST /chat/completions
LLMOutcomes ==
    { [ok |-> FALSE, message |-> m, content |-> InvalidText] : m \in LLMErrors }
    \cup { [ok |-> TRUE, message |-> "", content |-> ObjectText(b)] : b \in LLMBodies }

\* scorePost with a catch that defaults every field instead of returning the
\* error result
scorePostWithoutErrorTag(outcome) ==
    IF ~outcome.ok THEN normalizeResult(EmptyBody)
    ELSE LET result == JSONparse(outcome.content)
         IN IF result.threw \/ result.isNull THEN normalizeResult(EmptyBody)
            ELSE normalizeResult(result.value)

\* scorePost once the request has settled (the scorer is enabled): the try
\* block from JSON.parse on, and the catch
scorePostResult(outcome) ==
    IF ~outcome.ok THEN getErrorResult(outcome.message)
    ELSE LET result == JSONparse(outcome.content)
         IN IF result.threw THEN getErrorResult(result.message)
            ELSE IF result.isNull
            THEN getErrorResult("Cannot read properties of null (reading 'score')")
            ELSE normalizeResult(result.value)

\* const concurrency = options.concurrency || 3
DefaultConcurrency == 3

\* scoreBatch without the grouping: every remaining post started at once
startAllRemaining(posts, i, results) ==
    LET group == SubSeq(posts, i + 1, Len(posts))
    IN [ pc |-> "group", posts |-> posts, i |-> i, results |-> results,
         inflight |-> [k \in 1..Len(group) |->
                        [post |-> group[k], done |-> FALSE, value |-> <<>>,
                         outcome |-> <<>>]],
         outcomes |-> <<>> ]

\* scoreBatch: the group posts.slice(i, i + concurrency), every scorePost of
\* it started (each runs up to its await of client.post)
startGroup(posts, i, results) ==
    LET group == SubSeq(posts, i + 1, Min(i + DefaultConcurrency, Len(posts)))
    IN [ pc |-> "group", posts |-> posts, i |-> i, results |-> results,
         inflight |-> [k \in 1..Len(group) |->
                        [post |-> group[k], done |-> FALSE, value |-> <<>>,
                         outcome |-> <<>>]],
         \* history: the outcome of the request of each entry of results
         outcomes |-> <<>> ]

----------------------------------------------------------------------------
(* SearchService.searchWithAI                                              *)

\* options.minRelevanceScore / options.maxToScore: <<>> when not given
DefaultMinRelevanceScore == 30

DefaultMaxToScore == 20

\* Largest options.maxToScore a request gives
MaxToScoreBound == 3

AIOptionArgs ==
    { [minRelevanceScore |-> m, maxToScore |-> c] :
        m \in {<<>>, <<10>>, <<60>>},
        c \in {<<>>} \cup {<<k>> : k \in 0..MaxToScoreBound} }

optionOr(given, default) == IF given = <<>> THEN default ELSE given[1]

\* Values of search() a searchWithAI request starts from: Reddit and Hacker
\* News requested, each Source's result built as the Source builds it
AIRedditListings == { <<>>, <<"r1">>, <<"r2", "r1">>, <<"r3", "r4">> }

AIHackerNewsListings == { <<"h1">>, <<"h1", "h2">> }

AISearchReturns(criteria) ==
    LET reddit(l) == successResult("reddit",
                        processResponse([k \in 1..Len(l) |-> RemoteItem(l[k])],
                                        criteria, 1, 0), Len(l))
        hn(l) == successResult("hackernews",
                        processHits([k \in 1..Len(l) |-> RemoteItem(l[k])],
                                    criteria, 2), Len(l))
    IN { searchReturnValue(getPlatformNames, <<reddit(r), hn(h)>>, <<>>) :
            r \in AIRedditListings, h \in AIHackerNewsListings }
       \cup { searchReturnValue(getPlatformNames,
                  <<reddit(r), errorResult("hackernews", "Network Error")>>, <<>>) :
                r \in AIRedditListings }
       \cup { searchReturnValue(getPlatformNames, <<hn(h)>>,
                  << [platform |-> "reddit", error |-> "Network Error"] >>) :
                h \in AIHackerNewsListings }

\* The selection without the relevance threshold
selectWithoutThreshold(posts, minRelevanceScore, maxToScore) ==
    Slice(posts, maxToScore)

\* posts.filter(p => (p.signals?.relevanceScore || 0) >= minRelevanceScore)
\*      .slice(0, maxToScore)
selectPostsToScore(posts, minRelevanceScore, maxToScore) ==
    Slice(Filter(posts, {p \in Range(posts) : relevanceOf(p) >= minRelevanceScore}),
          maxToScore)

\* posts.filter(p => !postsToScore.includes(p)): includes compares object identity
selectPostsToSkip(posts, postsToScore) ==
    Filter(posts, {p \in Range(posts) :
                    p.ref \notin {postsToScore[k].ref : k \in 1..Len(postsToScore)}})

hasAnalysis(p) == "intentAnalysis" \in DOMAIN p

\* a.intentAnalysis?.score ?? -1
aiScoreOf(p) ==
    IF hasAnalysis(p) /\ p.intentAnalysis.score # <<>>
    THEN p.intentAnalysis.score[1] ELSE -1

\* The final comparator without the "AI-scored posts first" branches
compareAIScoreOnly(a, b) ==
    IF aiScoreOf(a) >= 0 /\ aiScoreOf(b) >= 0 THEN aiScoreOf(b) - aiScoreOf(a)
    ELSE relevanceOf(b) - relevanceOf(a)

\* The comparator of the final sort: negative when a sorts before b
compareAI(a, b) ==
    IF aiScoreOf(a) >= 0 /\ aiScoreOf(b) >= 0 THEN aiScoreOf(b) - aiScoreOf(a)
    ELSE IF aiScoreOf(a) >= 0 THEN -1
    ELSE IF aiScoreOf(b) >= 0 THEN 1
    ELSE relevanceOf(b) - relevanceOf(a)

RECURSIVE InsertByAI(_, _)
InsertByAI(sorted, x) ==
    IF sorted = <<>> THEN <<x>>
    ELSE IF compareAI(x, Head(sorted)) < 0 THEN <<x>> \o sorted
    ELSE <<Head(sorted)>> \o InsertByAI(Tail(sorted), x)

RECURSIVE SortAIFrom(_, _)
SortAIFrom(sorted, rest) ==
    IF rest = <<>> THEN sorted
    ELSE SortAIFrom(InsertByAI(sorted, Head(rest)), Tail(rest))

sortByAI(posts) == SortAIFrom(<<>>, posts)

\* p.intentAnalysis?.level
levelOf(p) ==
    IF hasAnalysis(p) /\ p.intentAnalysis.level # <<>>
    THEN p.intentAnalysis.level[1] ELSE ""

postsOfLevel(posts, level) ==
    Filter(posts, {p \in Range(posts) : levelOf(p) = level})

\* scoredPosts.filter(p => p.intentAnalysis?.score !== null).length:
\* undefined (no intentAnalysis) is not null
countScored(scoredPosts) ==
    Len(Filter(scoredPosts, {p \in Range(scoredPosts) :
                                ~hasAnalysis(p) \/ p.intentAnalysis.score # <<>>}))

\* searchWithAI: the early return when the search failed or found nothing
earlyResult(searchResult, isEnabled) ==
    [ success |-> searchResult.success,
      posts |-> searchResult.posts,
      totalFound |-> searchResult.totalFound,
      byPlatform |-> searchResult.byPlatform,
      errors |-> searchResult.errors,
      aiScoring |-> [enabled |-> isEnabled, scored |-> 0, skipped |-> 0] ]

\* searchWithAI: from "Combine scored and unscored posts" to the return
finalResult(searchResult, scoredPosts, postsToSkip, minRelevanceScore, isEnabled) ==
    LET allPosts == sortByAI(scoredPosts \o postsToSkip)
    IN [ success |-> TRUE,
         posts |-> allPosts,
         totalFound |-> searchResult.totalFound,
         byPlatform |-> searchResult.byPlatform,
         byIntentLevel |->
            [ HIGH |-> Len(postsOfLevel(allPosts, "HIGH")),
              MEDIUM |-> Len(postsOfLevel(allPosts, "MEDIUM")),
              LOW |-> Len(postsOfLevel(allPosts, "LOW")),
              NONE |-> Len(postsOfLevel(allPosts, "NONE")),
              UNSCORED |-> Len(postsOfLevel(allPosts, "")) ],
         hotLeads |-> postsOfLevel(allPosts, "HIGH"),
         aiScoring |-> [ enabled |-> isEnabled,
                         scored |-> countScored(scoredPosts),
                         skipped |-> Len(postsToSkip),
                         minRelevanceThreshold |-> minRelevanceScore ],
         errors |-> searchResult.errors ]

\* searchWithAI(criteria, platforms, options), entered with the value
\* searchReturn of its search(): runs to the return, or to the first await
\* inside scoreBatch
searchWithAI(searchReturn, criteria, options) ==
    /\ aiReq = <<>>
    /\ LET searchResult == searchRankedResult(searchReturn, criteria)
           minRelevanceScore == optionOr(options.minRelevanceScore, DefaultMinRelevanceScore)
           maxToScore == optionOr(options.maxToScore, DefaultMaxToScore)
           postsToScore == selectPostsToScore(searchResult.posts, minRelevanceScore, maxToScore)
           postsToSkip == selectPostsToSkip(searchResult.posts, postsToScore)
           early == ~searchResult.success \/ Len(searchResult.posts) = 0
           callsBatch == ~early /\ Len(postsToScore) > 0 /\ enabled
       IN /\ aiReq' = << [ criteria |-> criteria,
                           minRelevanceScore |-> minRelevanceScore,
                           maxToScore |-> maxToScore,
                           searchResult |-> searchResult,
                           early |-> early,
                           postsToScore |-> IF early THEN <<>> ELSE postsToScore,
                           postsToSkip |-> IF early THEN <<>> ELSE postsToSkip ] >>
          /\ IF early
             THEN /\ aiOut' = << earlyResult(searchResult, enabled) >>
                  /\ UNCHANGED <<batch, scorerLog, llmCalls>>
             ELSE IF callsBatch
             THEN /\ batch' = << startGroup(postsToScore, 0, <<>>) >>
                  /\ llmCalls' = llmCalls + Len(startGroup(postsToScore, 0, <<>>).inflight)
                  /\ scorerLog' = Append(scorerLog, postsToScore)
                  /\ UNCHANGED aiOut
             ELSE /\ aiOut' = << finalResult(searchResult, postsToScore, postsToSkip,
                                             minRelevanceScore, enabled) >>
                  /\ UNCHANGED <<batch, scorerLog, llmCalls>>
    /\ UNCHANGED <<enabled, scoreCall, searchVars, rateVars, signalVars>>

\* scorePost: the request of in-flight call k settles
scorePost_Response(k) ==
    /\ batch # <<>>
    /\ batch[1].pc = "group"
    /\ k \in 1..Len(batch[1].inflight)
    /\ ~batch[1].inflight[k].done
    /\ \E o \in LLMOutcomes :
         LET post == batch[1].inflight[k].post
             copy == spreadCopy(post, scorePostResult(o))
         IN batch' = << [batch[1] EXCEPT !.inflight[k] =
                          [ post |-> post, done |-> TRUE,
                            value |-> << copy.made >>,
                            outcome |-> <<o>> ],
                          \* the elements of posts are the caller's objects
                          !.posts[batch[1].i + k] = copy.post] >>
    /\ UNCHANGED <<enabled, aiReq, aiOut, scorerLog, scoreCall, llmCalls, searchVars, rateVars,
                   signalVars>>

\* scoreBatch: await Promise.all(batchPromises) resolves; results.push(...);
\* then the pause before the next group, or the return to the caller: into
\* searchWithAI, which runs to its own return, or to a direct caller
scoreBatch_GroupDone ==
    /\ batch # <<>>
    /\ batch[1].pc = "group"
    /\ \A k \in 1..Len(batch[1].inflight) : batch[1].inflight[k].done
    /\ LET b == batch[1]
           results == b.results \o [k \in 1..Len(b.inflight) |-> b.inflight[k].value[1]]
           outcomes == b.outcomes \o [k \in 1..Len(b.inflight) |-> b.inflight[k].outcome[1]]
       IN IF b.i + DefaultConcurrency < Len(b.posts)
          THEN /\ batch' = << [b EXCEPT !.pc = "pause", !.results = results,
                                        !.outcomes = outcomes, !.inflight = <<>>] >>
               /\ UNCHANGED aiOut
          ELSE /\ batch' = << [b EXCEPT !.pc = "returned", !.results = results,
                                        !.outcomes = outcomes, !.inflight = <<>>] >>
               /\ IF aiReq = <<>>
                  THEN UNCHANGED aiOut
                  ELSE aiOut' = << finalResult(aiReq[1].searchResult, results,
                                              aiReq[1].postsToSkip,
                                              aiReq[1].minRelevanceScore, enabled) >>
    /\ UNCHANGED <<enabled, aiReq, scorerLog, scoreCall, llmCalls, searchVars, rateVars,
                   signalVars>>

\* scoreBatch: the 200 ms pause between groups is over; the next group starts
scoreBatch_PauseElapsed ==
    /\ batch # <<>>
    /\ batch[1].pc = "pause"
    /\ LET next == startGroup(batch[1].posts, batch[1].i + DefaultConcurrency,
                              batch[1].results)
       IN /\ batch' = << [next EXCEPT !.outcomes = batch[1].outcomes] >>
          /\ llmCalls' = llmCalls + Len(next.inflight)
    /\ UNCHANGED <<enabled, aiReq, aiOut, scorerLog, scoreCall, searchVars, rateVars,
                   signalVars>>

InitAI ==
    /\ enabled \in BOOLEAN
    /\ aiReq = <<>>
    /\ batch = <<>>
    /\ aiOut = <<>>
    /\ scorerLog = <<>>
    /\ scoreCall = <<>>
    /\ llmCalls = 0
    /\ IdleSearch
    /\ IdleRate
    /\ IdleSignals

NextAI ==
    \/ \E criteria \in CriteriaArgs, options \in AIOptionArgs :
         \E searchReturn \in AISearchReturns(criteria) :
            searchWithAI(searchReturn, criteria, options)
    \/ \E k \in 1..DefaultConcurrency : scorePost_Response(k)
    \/ scoreBatch_GroupDone
    \/ scoreBatch_PauseElapsed

SpecAI == InitAI /\ [][NextAI]_vars

----------------------------------------------------------------------------
(* The Intent Scorer called on its own: scorePost(post), scoreBatch(posts) *)

\* Longest post list a caller hands to scoreBatch
MaxBatch == 4

\* n posts as a Source returns them
ScorerPosts(n) ==
    [ k \in 1..n |->
        normalizePost(RemoteItem(IF k % 2 = 1 THEN "h1" ELSE "h2"), "hackernews",
                      <<0, 0, k>>, Criteria(<<>>, <<>>)) ]

\* The post a caller hands to scorePost, the lists it hands to scoreBatch
ScorerPostArgs == Range(ScorerPosts(1))

ScorerBatchArgs == { ScorerPosts(n) : n \in 0..MaxBatch }

\* Parsed JSON objects whose fields are out of range, of the wrong type or
\* missing
UntrustedBodies ==
    { [ score |-> sc, level |-> lv, confidence |-> cf,
        buyingSignals |-> bs, painPoints |-> Undefined,
        urgency |-> ur, recommendedAction |-> ra, summary |-> Undefined ] :
        sc \in { Num(15000), Num(-500), Num(8550), Num(0), Str("85"), Str("85%"),
                 Str("high"), Undefined },
        lv \in { Str("MEDIUM"), Str("URGENT"), Undefined },
        cf \in { Num(90), Num(150), Num(-10), Num(0), Str("0.9"), Undefined },
        bs \in { Arr(<<"asked for pricing">>), Str("none") },
        ur \in { Str("SHORT_TERM"), Str("soon"), Undefined },
        ra \in { Str("SKIP"), Str("call"), Undefined } }

\* Outcomes of the request of a scorePost call: those of LLMOutcomes, and
\* responses whose content is not the JSON object the prompt asks for
ScorerOutcomes ==
    LLMOutcomes
    \cup { [ok |-> TRUE, message |-> "", content |-> c] :
             c \in {InvalidText, NullText, PrimitiveText} }
    \cup { [ok |-> TRUE, message |-> "", content |-> ObjectText(b)] :
             b \in UntrustedBodies }

\* scorePost(post) called on its own: to its return when the scorer is
\* disabled, else to the await of client.post
scorePost(post) ==
    /\ scoreCall = <<>>
    /\ batch = <<>>
    /\ IF ~enabled
       THEN /\ scoreCall' = << [ post |-> post, pc |-> "returned", outcome |-> <<>>,
                                 result |-> << getDisabledResult >> ] >>
            /\ UNCHANGED llmCalls
       ELSE /\ scoreCall' = << [ post |-> post, pc |-> "http", outcome |-> <<>>,
                                 result |-> <<>> ] >>
            /\ llmCalls' = llmCalls + 1
    /\ UNCHANGED <<enabled, aiReq, batch, aiOut, scorerLog, searchVars, rateVars,
                   signalVars>>

\* scorePost: the request settled; JSON.parse, normalizeResult, or the catch
scorePost_Settle ==
    /\ scoreCall # <<>>
    /\ scoreCall[1].pc = "http"
    /\ \E o \in ScorerOutcomes :
         scoreCall' = << [ scoreCall[1] EXCEPT !.pc = "returned", !.outcome = <<o>>,
                                              !.result = << scorePostResult(o) >> ] >>
    /\ UNCHANGED <<enabled, aiReq, batch, aiOut, scorerLog, llmCalls, searchVars, rateVars,
                   signalVars>>

\* The disabled scorer handing the posts back as they came
untaggedResults(posts) == posts

\* posts.map(post => ({ ...post, intentAnalysis: this.getDisabledResult() }))
disabledResults(posts) ==
    [ k \in 1..Len(posts) |-> withAnalysis(posts[k], getDisabledResult) ]

\* scoreBatch(posts) called on its own: to its return when the scorer is
\* disabled or the list is empty (the loop body never runs), else to the
\* await of the first group
scoreBatch(posts) ==
    /\ batch = <<>>
    /\ scoreCall = <<>>
    /\ aiReq = <<>>
    /\ IF ~enabled
       THEN /\ batch' = << [ pc |-> "returned", posts |-> posts, i |-> 0,
                             results |-> disabledResults(posts),
                             inflight |-> <<>>, outcomes |-> <<>> ] >>
            /\ UNCHANGED llmCalls
       ELSE IF Len(posts) = 0
       THEN /\ batch' = << [ pc |-> "returned", posts |-> posts, i |-> 0,
                             results |-> <<>>, inflight |-> <<>>, outcomes |-> <<>> ] >>
            /\ UNCHANGED llmCalls
       ELSE /\ batch' = << startGroup(posts, 0, <<>>) >>
            /\ llmCalls' = llmCalls + Len(startGroup(posts, 0, <<>>).inflight)
    /\ UNCHANGED <<enabled, aiReq, aiOut, scorerLog, scoreCall, searchVars, rateVars,
                   signalVars>>

NextScorer ==
    \/ \E post \in ScorerPostArgs : scorePost(post)
    \/ scorePost_Settle
    \/ \E posts \in ScorerBatchArgs : scoreBatch(posts)
    \/ \E k \in 1..DefaultConcurrency : scorePost_Response(k)
    \/ scoreBatch_GroupDone
    \/ scoreBatch_PauseElapsed

SpecScorer == InitAI /\ [][NextScorer]_vars

----------------------------------------------------------------------------
(* The signal detector called on a post text and a criteria                *)

\* Longest keyword / intent keyword list of a criteria, and the most of
\* them a text contains
MaxKeywords == 3

\* Calls of detectSignals with the same arguments
MaxSignalCalls == 2

KeywordPool == <<"CRM", "sales tool", "pipeline", "lead tracking", "contacts">>

IntentPool == <<"Looking For", "recommend", "need a", "any suggestions", "alternative to">>

PainPool == <<"frustrated", "too expensive", "hate">>

CompetitorPool == <<"salesforce", "hubspot">>

\* Length of the long keyword list, of which a text contains one entry
LongListLen == 81

LongKeywords == [ k \in 1..LongListLen |-> IF k = 1 THEN "CRM" ELSE "term " \o ToString(k) ]

\* criteria.keywords may be empty (or absent: `|| []` and `?.length || 1`
\* treat both alike)
SignalCriteria ==
    { [ keywords |-> Slice(KeywordPool, a), intentKeywords |-> Slice(IntentPool, b),
        painKeywords |-> Slice(PainPool, c), competitors |-> Slice(CompetitorPool, d) ] :
        a \in 0..MaxKeywords, b \in 0..MaxKeywords, c \in {0, 1, 3}, d \in {0, 2} }
    \cup { [ keywords |-> Slice(LongKeywords, n), intentKeywords |-> <<>>,
             painKeywords |-> <<>>, competitors |-> <<>> ] :
             n \in {LongListLen - 1, LongListLen} }

\* `${post.title} ${post.body}`.toLowerCase(), as the set of phrases in it
SignalTexts ==
    { { toLowerCase(x) : x \in Range(Slice(KeywordPool, a)) \cup Range(Slice(IntentPool, b))
                               \cup Range(Slice(PainPool, c))
                               \cup Range(Slice(CompetitorPool, d)) } :
        a \in 0..MaxKeywords, b \in 0..MaxKeywords, c \in {0, 1, 3}, d \in {0, 2} }

\* this.detectSignals(normalized, criteria), called with the arguments sigIn
detectSignals_Call ==
    /\ sigIn # <<>>
    /\ Len(sigOut) < MaxSignalCalls
    /\ sigOut' = Append(sigOut, detectSignals(sigIn[1].text, sigIn[1].criteria))
    /\ UNCHANGED <<sigIn, searchVars, aiVars, rateVars>>

InitSignals ==
    /\ sigIn \in { << [text |-> t, criteria |-> c] >> : t \in SignalTexts, c \in SignalCriteria }
    /\ sigOut = <<>>
    /\ IdleSearch
    /\ IdleAI
    /\ IdleRate

NextSignals == detectSignals_Call

SpecSignals == InitSignals /\ [][NextSignals]_vars

----------------------------------------------------------------------------
(* Rate limiter: BasePlatformAdapter.checkRateLimit                        *)
(* Time is Date.now() in milliseconds; it advances in steps of TickMs.     *)

\* The one-minute window of checkRateLimit
WindowMs == 60000

\* Clock ticks per window, ticks a behaviour lasts, concurrent callers
TicksPerWindow == 2

MaxTicks == 4

MaxCallers == 2

TickMs == WindowMs \div TicksPerWindow

Callers == 1..MaxCallers

Sources == Range(getPlatformNames)

\* The budgets of the Sources. The code's values are 30 (Reddit) and 100
\* (Hacker News) requests per window; the model keeps them distinct and
\* scales them down so that a window can be exhausted within a few steps.
RedditRateLimit == 2

HackerNewsRateLimit == 3

\* get rateLimitPerMinute()
rateLimitPerMinute(platform) ==
    IF platform = "reddit" THEN RedditRateLimit ELSE HackerNewsRateLimit

IdleCaller == [pc |-> "idle", platform |-> "", wake |-> 0, waitTime |-> 0]

\* lastResetTime = t: a reset after the observed window is over opens the
\* next observed window
observeReset(ws, wa, platform, t) ==
    IF t >= ws[platform] + WindowMs
    THEN [start |-> [ws EXCEPT ![platform] = t], admits |-> [wa EXCEPT ![platform] = 0]]
    ELSE [start |-> ws, admits |-> wa]

\* requestCount++ at time t: counted when t lies in the observed window
observeAdmit(ws, wa, platform, t) ==
    IF t < ws[platform] + WindowMs THEN [wa EXCEPT ![platform] = @ + 1] ELSE wa

\* The wait measured from the wrong end: the time since the reset, less the window
waitTimeSinceReset(nowMs, lastResetTime) == (nowMs - lastResetTime) - WindowMs

\* const waitTime = 60000 - (now - this.lastResetTime)
waitTimeOf(nowMs, lastResetTime) == WindowMs - (nowMs - lastResetTime)

\* The last instant at which a caller starts a call
Horizon == MaxTicks * TickMs

\* checkRateLimit(), from its start to its return or to the await of the
\* timer, called by caller c on the Source of `platform`
checkRateLimit(c, platform) ==
    /\ platform \in DOMAIN limiter
    /\ callers[c].pc = "idle"
    /\ now <= Horizon
    /\ LET l == limiter[platform]
           \* if (this.lastResetTime < now - 60000) { requestCount = 0; lastResetTime = now }
           reset == l.lastResetTime < now - WindowMs
           requestCount == IF reset THEN 0 ELSE l.requestCount
           lastResetTime == IF reset THEN now ELSE l.lastResetTime
           obs == IF reset THEN observeReset(windowStart, windowAdmits, platform, now)
                  ELSE [start |-> windowStart, admits |-> windowAdmits]
           waitTime == waitTimeOf(now, lastResetTime)
       IN IF requestCount >= rateLimitPerMinute(platform)
          THEN \* await new Promise(r => setTimeout(r, waitTime))
               /\ callers' = [callers EXCEPT ![c] =
                                [pc |-> "waiting", platform |-> platform,
                                 wake |-> now + waitTime, waitTime |-> waitTime]]
               /\ limiter' = [limiter EXCEPT ![platform] =
                                [requestCount |-> requestCount,
                                 lastResetTime |-> lastResetTime]]
               /\ windowStart' = obs.start
               /\ windowAdmits' = obs.admits
          ELSE \* this.requestCount++
               /\ limiter' = [limiter EXCEPT ![platform] =
                                [requestCount |-> requestCount + 1,
                                 lastResetTime |-> lastResetTime]]
               /\ windowStart' = obs.start
               /\ windowAdmits' = observeAdmit(obs.start, obs.admits, platform, now)
               /\ UNCHANGED callers
    /\ UNCHANGED <<now, searchVars, aiVars, signalVars>>

\* checkRateLimit(): the timer fired; requestCount = 0; lastResetTime =
\* Date.now(); requestCount++
checkRateLimit_Resume(c) ==
    /\ limiter # <<>>
    /\ callers[c].pc = "waiting"
    /\ now >= callers[c].wake
    /\ LET platform == callers[c].platform
           obs == observeReset(windowStart, windowAdmits, platform, now)
       IN /\ limiter' = [limiter EXCEPT ![platform] =
                            [requestCount |-> 1, lastResetTime |-> now]]
          /\ windowStart' = obs.start
          /\ windowAdmits' = observeAdmit(obs.start, obs.admits, platform, now)
    /\ callers' = [callers EXCEPT ![c] = [@ EXCEPT !.pc = "idle"]]
    /\ UNCHANGED <<now, searchVars, aiVars, signalVars>>

\* Time passes: up to the horizon, and beyond it while a timer is pending
Tick ==
    /\ limiter # <<>>
    /\ \/ now < Horizon
       \/ \E c \in Callers : callers[c].pc = "waiting" /\ callers[c].wake > now
    /\ now' = now + TickMs
    /\ UNCHANGED <<limiter, callers, windowStart, windowAdmits, searchVars, aiVars, signalVars>>

\* constructor: this.requestCount = 0; this.lastResetTime = Date.now()
\* Each Source owns its counters and shares them with no other Source: a
\* behaviour follows the counters of one Source, chosen here
InitRate ==
    /\ now = 0
    /\ \E source \in Sources :
          /\ limiter = [p \in {source} |-> [requestCount |-> 0, lastResetTime |-> 0]]
          /\ windowStart = [p \in {source} |-> 0]
          /\ windowAdmits = [p \in {source} |-> 0]
    /\ callers = [c \in Callers |-> IdleCaller]
    /\ IdleSearch
    /\ IdleAI
    /\ IdleSignals

NextRate ==
    \/ \E c \in Callers, platform \in Sources : checkRateLimit(c, platform)
    \/ \E c \in Callers : checkRateLimit_Resume(c)
    \/ Tick

SpecRate == InitRate /\ [][NextRate]_vars

\* The clock advances and a timer that is due fires
SpecRateLive ==
    /\ InitRate
    /\ [][NextRate]_vars
    /\ WF_vars(Tick)
    /\ \A c \in Callers : WF_vars(checkRateLimit_Resume(c))

----------------------------------------------------------------------------
(* Properties of search / searchRanked, checked under Spec                 *)

Settled(i) == calls[i].pc = "settled"

CallIds == 1..Len(calls)

\* The adapter of callback i settled with a success=true result
Succeeded(i) ==
    /\ calls[i].adapter = "resolved"
    /\ calls[i].value[1].success

SearchReturned == searchOut # <<>> /\ ~searchOut[1].threw

\* C1: when the remote HTTP call of a Source fails or times out, the
\* Source's search() does not reject: it resolves to a result with
\* success=false, no posts and the causing error message, on every path.
C1_SourceNeverRaises ==
    \A i \in CallIds :
        (Settled(i) /\ calls[i].remoteFailed) =>
            /\ calls[i].adapter = "resolved"
            /\ calls[i].value[1].success = FALSE
            /\ calls[i].value[1].posts = <<>>
            /\ "error" \in DOMAIN calls[i].value[1]
            /\ calls[i].value[1].error \in HttpErrors

\* C2: whenever a requested Source's remote call failed during search(),
\* the returned errors list has an entry naming that Source's platform.
C2_FailedSourceInErrors ==
    SearchReturned =>
        \A i \in CallIds :
            calls[i].remoteFailed =>
                \E k \in 1..Len(searchOut[1].errors) :
                    searchOut[1].errors[k].platform = calls[i].platform

SourceLevelError ==
    \E i \in CallIds :
        calls[i].adapter \in {"none", "notAnAdapter"} \/ calls[i].remoteFailed

\* C3: search and searchRanked report success=false exactly when a requested
\* platform is unknown or a requested Source's call failed.
C3_SuccessIffNoSourceError ==
    /\ SearchReturned => (searchOut[1].success = ~SourceLevelError)
    /\ rankedOut # <<>> => (rankedOut[1].success = ~SourceLevelError)

\* C4: when one Source fails and others succeed, search still returns (it
\* does not reject), every successful Source's result is in results, and
\* every post of it is in searchRanked's merged list before truncation.
C4_SuccessfulSourcesSurvive ==
    /\ searchOut # <<>> =>
          /\ ~searchOut[1].threw
          /\ \A i \in CallIds :
                Succeeded(i) => calls[i].value[1] \in Range(searchOut[1].results)
    /\ rankedOut # <<>> =>
          \A i \in CallIds :
              Succeeded(i) =>
                  \A k \in 1..Len(calls[i].value[1].posts) :
                      calls[i].value[1].posts[k] \in Range(rankedOut[1].allPosts)

\* One Source failed, another returned posts, and searchRanked returned
C4_Witness ==
    /\ rankedOut # <<>>
    /\ \E i, j \in CallIds :
          /\ calls[i].remoteFailed /\ ~Succeeded(i)
          /\ Succeeded(j) /\ Len(calls[j].value[1].posts) >= 1
          /\ calls[j].value[1].posts[1] \in Range(rankedOut[1].posts)

SortedByRelevance(posts) ==
    \A k \in 1..(Len(posts) - 1) :
        posts[k].signals.relevanceScore >= posts[k + 1].signals.relevanceScore

\* C7: searchRanked's posts are sorted non-increasing by relevanceScore, and
\* with maxResults = k > 0 there are exactly min(k, totalFound) of them, none
\* of the omitted merged posts scoring higher than a returned one.
C7_RankedSortedAndTruncated ==
    rankedOut # <<>> =>
        LET r == rankedOut[1]
            maxResults == request[1].criteria.maxResults
            merged == mergePosts(searchOut[1].results)
            returned == {r.posts[k].ref : k \in 1..Len(r.posts)}
        IN /\ SortedByRelevance(r.posts)
           /\ r.totalFound = Len(merged)
           /\ Range(r.posts) \subseteq Range(merged)
           /\ (maxResults # <<>> /\ maxResults[1] > 0) =>
                /\ Len(r.posts) = Min(maxResults[1], r.totalFound)
                /\ \A m \in 1..Len(merged), k \in 1..Len(r.posts) :
                      merged[m].ref \notin returned =>
                          merged[m].signals.relevanceScore
                              <= r.posts[k].signals.relevanceScore

\* A truncation that drops a strictly lower-scoring post which arrived first
C7_Witness ==
    /\ rankedOut # <<>>
    /\ request[1].criteria.maxResults = <<1>>
    /\ rankedOut[1].totalFound >= 2
    /\ Len(rankedOut[1].posts) = 1
    /\ LET merged == mergePosts(searchOut[1].results)
       IN merged[1].signals.relevanceScore < rankedOut[1].posts[1].signals.relevanceScore

\* The callbacks whose adapter resolved, in request order
ResolvedCalls ==
    SelectSeq([i \in 1..Len(calls) |-> i], LAMBDA i : calls[i].adapter = "resolved")

\* C10: the per-source entries of results follow the order of the requested
\* platform list, whatever the order in which the Sources' calls complete.
C10_ResultsInRequestOrder ==
    SearchReturned =>
        LET results == searchOut[1].results
        IN /\ Len(results) = Len(ResolvedCalls)
           /\ \A k \in 1..Len(results) :
                /\ results[k] = calls[ResolvedCalls[k]].value[1]
                /\ results[k].platform = request[1].targetPlatforms[ResolvedCalls[k]]

\* Two Sources returned results and the second requested completed first
C10_Witness ==
    /\ SearchReturned
    /\ Len(searchOut[1].results) = 2
    /\ completed = <<2, 1>>
    /\ searchOut[1].results[1].platform # searchOut[1].results[2].platform

\* Post p arrived before post q: from a Source requested earlier, or from
\* the same Source and earlier in the list that Source returned
ArrivedBefore(p, q) ==
    LET from(x) == calls[x.ref[1]].value[1].posts
        pos(x) == CHOOSE k \in 1..Len(from(x)) : from(x)[k].ref = x.ref
    IN \/ p.ref[1] < q.ref[1]
       \/ p.ref[1] = q.ref[1] /\ pos(p) < pos(q)

\* C21: searchRanked's sort is stable: two posts with equal relevanceScore
\* appear in the output in source-arrival order, the order of the requested
\* platform list and, within one Source, the order that Source returned them.
C21_RankedSortStable ==
    rankedOut # <<>> =>
        \A list \in {rankedOut[1].allPosts, rankedOut[1].posts} :
            \A i, j \in 1..Len(list) :
                (i < j /\ relevanceOf(list[i]) = relevanceOf(list[j])) =>
                    ArrivedBefore(list[i], list[j])

\* Two Sources returned a post of the same score, and the sort moved a post:
\* the merged list began with a lower-scoring one
C21_Witness ==
    /\ rankedOut # <<>>
    /\ Len(rankedOut[1].posts) >= 3
    /\ relevanceOf(rankedOut[1].posts[1]) = relevanceOf(rankedOut[1].posts[2])
    /\ rankedOut[1].posts[1].ref[1] # rankedOut[1].posts[2].ref[1]
    /\ mergePosts(searchOut[1].results)[1] # rankedOut[1].posts[1]

\* The post carries signals, a positive score and a match in some list
Relevant(p) ==
    /\ "signals" \in DOMAIN p
    /\ p.signals.relevanceScore > 0
    /\ Len(p.signals.matchedKeywords) + Len(p.signals.matchedIntentKeywords)
         + Len(p.signals.matchedPainKeywords) + Len(p.signals.matchedCompetitors) > 0

\* C17: no post without a match in any of the four keyword lists, without
\* signals or with relevanceScore 0 is in the post list a Source's search
\* returns, on the Reddit global, Reddit per-subreddit and Hacker News paths.
C17_NoIrrelevantPostReturned ==
    \A i \in CallIds :
        /\ \A k \in 1..Len(calls[i].allPosts) : Relevant(calls[i].allPosts[k])
        /\ calls[i].adapter = "resolved" =>
              \A k \in 1..Len(calls[i].value[1].posts) :
                  Relevant(calls[i].value[1].posts[k])

\* Hacker News answered two hits and the Source returned one of them, and a
\* Reddit search over subreddits returned a post
C17_Witness ==
    /\ \E i \in CallIds :
          /\ calls[i].platform = "hackernews" /\ Succeeded(i)
          /\ calls[i].value[1].totalFound = 2
          /\ Len(calls[i].value[1].posts) = 1
    /\ \E i \in CallIds :
          /\ calls[i].platform = "reddit" /\ Succeeded(i)
          /\ calls[i].sub >= 1
          /\ Len(calls[i].value[1].posts) >= 1

\* The posts the answered subreddit requests of callback i produced
RECURSIVE FetchedPosts(_)
FetchedPosts(fetched) ==
    IF fetched = <<>> THEN <<>> ELSE Head(fetched).posts \o FetchedPosts(Tail(fetched))

\* C24: in Reddit's subreddit-scoped search a failed request for one
\* subreddit neither fails the search nor stops the loop: every subreddit is
\* queried, the posts of those that answered are returned, and the result
\* is success=true, sorted non-increasing by relevanceScore and holds at
\* most maxResults posts.
C24_SubredditFailureIsolated ==
    \A i \in CallIds :
        (request[1].criteria.subreddits # <<>> /\ calls[i].platform = "reddit") =>
            LET c == calls[i]
                subreddits == request[1].criteria.subreddits
                got == FetchedPosts(c.fetched)
            IN /\ c.pc = "http" => c.sub = Len(c.fetched) + 1
               /\ c.pc = "settled" =>
                     /\ Len(c.fetched) = Len(subreddits)
                     /\ c.adapter = "resolved"
                     /\ c.value[1].success
                     /\ SortedByRelevance(c.value[1].posts)
                     /\ Len(c.value[1].posts)
                            = Min(adapterMaxResults(request[1].criteria), Len(got))
                     /\ Range(c.value[1].posts) \subseteq Range(got)
                     /\ \A p \in Range(got) \ Range(c.value[1].posts) :
                           \A q \in Range(c.value[1].posts) :
                               relevanceOf(p) <= relevanceOf(q)

\* The request of the first of two subreddits failed, the second answered,
\* and its posts are in the result
C24_Witness ==
    \E i \in CallIds :
        /\ calls[i].pc = "settled" /\ calls[i].platform = "reddit"
        /\ Len(calls[i].fetched) = 2
        /\ ~calls[i].fetched[1].ok
        /\ calls[i].fetched[2].ok /\ Len(calls[i].fetched[2].posts) >= 1
        /\ calls[i].adapter = "resolved"
        /\ calls[i].value[1].posts = calls[i].fetched[2].posts

\* C26: in search, every requested platform id contributes exactly one entry
\* to exactly one of results or errors, so |results| + |errors| is the number
\* of requested ids, and totalPosts is the sum of the post counts of the
\* entries of results.
C26_OneEntryPerRequestedId ==
    searchOut # <<>> =>
        LET out == searchOut[1]
            target == request[1].targetPlatforms
            entries(list, p) == Cardinality({k \in 1..Len(list) : list[k].platform = p})
        IN /\ ~out.threw
           /\ Len(out.results) + Len(out.errors) = Len(target)
           /\ \A p \in Range(target) :
                 entries(out.results, p) + entries(out.errors, p)
                    = Cardinality({k \in 1..Len(target) : target[k] = p})
           /\ \A i \in CallIds :
                 (calls[i].adapter = "resolved") # (calls[i].adapter \in
                                        {"none", "notAnAdapter", "rejected"})
           /\ out.totalPosts = Len(mergePosts(out.results))

\* Of two requested ids one was unknown and the other's Source returned posts
C26_Witness ==
    /\ SearchReturned
    /\ Len(request[1].targetPlatforms) = 2
    /\ Len(searchOut[1].results) = 1
    /\ Len(searchOut[1].errors) = 1
    /\ searchOut[1].totalPosts >= 1
    /\ \E i \in CallIds : calls[i].adapter = "none"

\* C28: in every searchRanked result the byPlatform counts sum to totalFound
\* (the number of merged posts before truncation), for every list of
\* requested platform ids, also one that names a platform more than once.
C28_ByPlatformSumsToTotalFound ==
    rankedOut # <<>> =>
        LET byPlatform == rankedOut[1].byPlatform
            RECURSIVE Sum(_)
            Sum(S) == IF S = {} THEN 0
                      ELSE LET p == CHOOSE x \in S : TRUE
                           IN byPlatform[p] + Sum(S \ {p})
        IN Sum(DOMAIN byPlatform) = rankedOut[1].totalFound

\* C18: searchPlatform with an id that is not a registered platform returns
\* (does not raise) success=false, no posts and the error "Unknown platform:
\* <id>"; an unregistered id passed to search gets an errors entry and no
\* Source is called for it.
C18_UnknownPlatformReported ==
    /\ (request # <<>> /\ request[1].kind = "searchPlatform"
            /\ request[1].targetPlatforms[1] \notin Range(getPlatformNames)) =>
          /\ calls = <<>>
          /\ platformOut # <<>>
          /\ ~platformOut[1].threw
          /\ platformOut[1].value
                = << [ success |-> FALSE, platform |-> request[1].targetPlatforms[1],
                       posts |-> <<>>,
                       error |-> "Unknown platform: " \o request[1].targetPlatforms[1] ] >>
    /\ (request # <<>> /\ request[1].kind = "search") =>
          \A i \in CallIds :
              calls[i].platform \notin Range(getPlatformNames) =>
                  /\ calls[i].pc = "settled"
                  /\ calls[i].adapter \in {"none", "notAnAdapter"}
                  /\ \E k \in 1..Len(errors) : errors[k].platform = calls[i].platform

----------------------------------------------------------------------------
(* Properties of searchWithAI, checked under SpecAI                        *)

AIReturned == aiOut # <<>>

\* The posts of the returned list that were selected for scoring
SelectedRefs == {aiReq[1].postsToScore[k].ref : k \in 1..Len(aiReq[1].postsToScore)}

\* C5: with the Intent Scorer disabled, every post selected for scoring
\* carries intentAnalysis.error = "AI_DISABLED" and a null score in the
\* result of searchWithAI, and aiScoring.scored = 0.
C5_DisabledTagsSelectedPosts ==
    (AIReturned /\ ~enabled) =>
        /\ aiOut[1].aiScoring.scored = 0
        /\ \A k \in 1..Len(aiOut[1].posts) :
              aiOut[1].posts[k].ref \in SelectedRefs =>
                  /\ hasAnalysis(aiOut[1].posts[k])
                  /\ aiOut[1].posts[k].intentAnalysis.score = <<>>
                  /\ "error" \in DOMAIN aiOut[1].posts[k].intentAnalysis
                  /\ aiOut[1].posts[k].intentAnalysis.error = "AI_DISABLED"

EligiblePosts ==
    SelectSeq(aiReq[1].searchResult.posts,
              LAMBDA p : p.signals.relevanceScore >= aiReq[1].minRelevanceScore)

\* C8: searchWithAI passes at most maxToScore posts to the Intent Scorer,
\* each with relevanceScore >= minRelevanceScore; they are the first eligible
\* posts of the ranked list, in rank order.
C8_ScorerInputBounded ==
    \A n \in 1..Len(scorerLog) :
        LET passed == scorerLog[n]
        IN /\ Len(passed) <= aiReq[1].maxToScore
           /\ \A k \in 1..Len(passed) :
                passed[k].signals.relevanceScore >= aiReq[1].minRelevanceScore
           /\ Len(passed) = Min(aiReq[1].maxToScore, Len(EligiblePosts))
           /\ passed = SubSeq(EligiblePosts, 1, Len(passed))

\* The cap cut eligible posts off and the ranked list also held a post
\* below the threshold
C8_Witness ==
    /\ Len(scorerLog) = 1
    /\ Len(scorerLog[1]) = aiReq[1].maxToScore
    /\ Len(EligiblePosts) > aiReq[1].maxToScore
    /\ Len(aiReq[1].searchResult.posts) > Len(EligiblePosts)
    /\ AIReturned

ValidScore(p) == hasAnalysis(p) /\ p.intentAnalysis.score # <<>>

\* C9: in searchWithAI's post list the posts with a non-null AI score come
\* first, in non-increasing intentAnalysis.score order, then the posts
\* without one in non-increasing relevanceScore order.
C9_FinalOrder ==
    AIReturned =>
        LET posts == aiOut[1].posts
        IN \A i, j \in 1..Len(posts) :
              i < j =>
                /\ ValidScore(posts[j]) => ValidScore(posts[i])
                /\ (ValidScore(posts[i]) /\ ValidScore(posts[j])) =>
                      posts[i].intentAnalysis.score[1] >= posts[j].intentAnalysis.score[1]
                /\ (~ValidScore(posts[i]) /\ ~ValidScore(posts[j])) =>
                      posts[i].signals.relevanceScore >= posts[j].signals.relevanceScore

\* The AI scores reordered the ranked list: a post of lower relevance with
\* the higher AI score leads, and an AI_ERROR post and a skipped post follow
C9_Witness ==
    /\ AIReturned
    /\ Len(aiOut[1].posts) >= 4
    /\ ValidScore(aiOut[1].posts[1]) /\ ValidScore(aiOut[1].posts[2])
    /\ aiOut[1].posts[1].intentAnalysis.score[1] > aiOut[1].posts[2].intentAnalysis.score[1]
    /\ aiOut[1].posts[1].signals.relevanceScore < aiOut[1].posts[2].signals.relevanceScore
    /\ \E k \in 3..Len(aiOut[1].posts) :
          /\ hasAnalysis(aiOut[1].posts[k])
          /\ aiOut[1].posts[k].intentAnalysis.score = <<>>
    /\ \E k \in 3..Len(aiOut[1].posts) : ~hasAnalysis(aiOut[1].posts[k])

\* The scorePost calls of scoreBatch whose request has not settled
InFlight ==
    IF batch = <<>> THEN {}
    ELSE {k \in 1..Len(batch[1].inflight) : ~batch[1].inflight[k].done}

\* The scorePost calls of scoreBatch that have returned
Completed ==
    Len(batch[1].results)
    + Cardinality({k \in 1..Len(batch[1].inflight) : batch[1].inflight[k].done})

\* C11: during scoreBatch with the scorer enabled, a group is in flight only
\* when every call of the groups before it has completed and its result is
\* stored, so at most `concurrency` (3) LLM calls are in flight at a time.
C11_GroupsSequential ==
    batch # <<>> =>
        LET b == batch[1]
        IN /\ Cardinality(InFlight) <= DefaultConcurrency
           /\ llmCalls - Completed <= DefaultConcurrency
           /\ llmCalls - Completed = Cardinality(InFlight)
           /\ b.pc = "group" =>
                 /\ Len(b.results) = b.i
                 /\ \A k \in 1..Len(b.inflight) : b.inflight[k].post = b.posts[b.i + k]
           /\ b.pc # "group" => InFlight = {}

\* The second group is in flight after the first one completed
C11_Witness ==
    /\ batch # <<>>
    /\ enabled
    /\ batch[1].pc = "group"
    /\ batch[1].i = DefaultConcurrency
    /\ Len(batch[1].results) = DefaultConcurrency
    /\ InFlight # {}
    /\ llmCalls > DefaultConcurrency

\* C12: a failed LLM call inside scoreBatch gives its post the error result
\* (score null, error "AI_ERROR", the message in summary); scoreBatch still
\* returns every post of its input, in order, and the posts whose call
\* succeeded carry a score, in the same group and in later groups.
C12_FailedCallDegradesOnlyItsPost ==
    batch # <<>> =>
        LET b == batch[1]
        IN /\ Len(b.outcomes) = Len(b.results)
           /\ \A n \in 1..Len(b.results) :
                 /\ b.results[n].ref = b.posts[n].ref
                 /\ hasAnalysis(b.results[n])
                 /\ ~b.outcomes[n].ok =>
                       /\ b.results[n].intentAnalysis.score = <<>>
                       /\ "error" \in DOMAIN b.results[n].intentAnalysis
                       /\ b.results[n].intentAnalysis.error = "AI_ERROR"
                       /\ b.results[n].intentAnalysis.summary
                             = "AI scoring failed: " \o b.outcomes[n].message
                 /\ (b.outcomes[n].ok /\ b.outcomes[n].content.json = "object") =>
                       /\ ValidScore(b.results[n])
                       /\ "error" \notin DOMAIN b.results[n].intentAnalysis
           /\ b.pc = "returned" => Len(b.results) = Len(b.posts)
           /\ (b.pc = "returned" /\ aiReq # <<>>) =>
                 /\ aiOut # <<>>
                 /\ Range(b.results) \subseteq Range(aiOut[1].posts)

\* The first call of a two-group batch failed; a post of the same group and
\* the post of the second group were scored; searchWithAI returned them
C12_Witness ==
    /\ batch # <<>>
    /\ batch[1].pc = "returned"
    /\ Len(batch[1].results) > DefaultConcurrency
    /\ ~batch[1].outcomes[1].ok
    /\ batch[1].outcomes[2].ok /\ ValidScore(batch[1].results[2])
    /\ batch[1].outcomes[Len(batch[1].results)].ok
    /\ ValidScore(batch[1].results[Len(batch[1].results)])
    /\ aiOut # <<>>

\* The post of the searchRanked result that post p of the output stems from
RankedPostOf(p) ==
    CHOOSE q \in Range(aiReq[1].searchResult.posts) : q.ref = p.ref

\* C25: an IntentAnalysis is attached only to posts selected for scoring and
\* not changed afterwards: in searchWithAI's result every skipped post has
\* no intentAnalysis, a scored post differs from the post searchRanked
\* returned in its intentAnalysis only (id, platform, signals are the same)
\* and carries the analysis the scorer returned, and the post objects
\* searchRanked returned are not written to.
C25_AnalysisOnlyOnSelectedCopies ==
    /\ (batch # <<>> /\ aiReq # <<>>) =>
          /\ batch[1].posts = aiReq[1].postsToScore
          /\ \A n \in 1..Len(batch[1].posts) : ~hasAnalysis(batch[1].posts[n])
    /\ AIReturned =>
          \A k \in 1..Len(aiOut[1].posts) :
              LET p == aiOut[1].posts[k]
                  q == RankedPostOf(p)
              IN /\ p.ref \notin SelectedRefs => (~hasAnalysis(p) /\ p = q)
                 /\ hasAnalysis(p) =>
                       /\ p.ref \in SelectedRefs
                       /\ p \in Range(batch[1].results)
                 /\ \A f \in DOMAIN q : p[f] = q[f]
                 /\ DOMAIN p \subseteq DOMAIN q \cup {"intentAnalysis"}

\* A result with a scored post, an AI_ERROR post and a skipped post
C25_Witness ==
    /\ AIReturned
    /\ batch # <<>>
    /\ \E k \in 1..Len(aiOut[1].posts) : ValidScore(aiOut[1].posts[k])
    /\ \E k \in 1..Len(aiOut[1].posts) :
          hasAnalysis(aiOut[1].posts[k]) /\ ~ValidScore(aiOut[1].posts[k])
    /\ \E k \in 1..Len(aiOut[1].posts) :
          /\ ~hasAnalysis(aiOut[1].posts[k])
          /\ aiOut[1].posts[k].ref \notin SelectedRefs

\* The number of posts of the list whose id is x
IdCount(posts, x) == Cardinality({k \in 1..Len(posts) : posts[k].id = x})

\* C27: searchWithAI neither loses nor duplicates posts: the ids of its
\* returned list are those of the searchRanked result it started from (same
\* multiset), the scored and the skipped posts are disjoint, and
\* aiScoring.skipped plus the number of posts selected for scoring is
\* posts.length.
C27_NoPostLostOrDuplicated ==
    AIReturned =>
        LET out == aiOut[1]
            ranked == aiReq[1].searchResult.posts
            ids == {ranked[k].id : k \in 1..Len(ranked)}
                      \cup {out.posts[k].id : k \in 1..Len(out.posts)}
            skippedRefs == {aiReq[1].postsToSkip[k].ref : k \in 1..Len(aiReq[1].postsToSkip)}
        IN /\ Len(out.posts) = Len(ranked)
           /\ \A x \in ids : IdCount(out.posts, x) = IdCount(ranked, x)
           /\ SelectedRefs \cap skippedRefs = {}
           /\ out.aiScoring.skipped + Len(aiReq[1].postsToScore) = Len(out.posts)

\* C22: in every searchWithAI result each returned post is counted in
\* exactly one of the groups HIGH, MEDIUM, LOW, NONE, UNSCORED (the five
\* byIntentLevel counts sum to posts.length), UNSCORED counts exactly the
\* posts with no intentAnalysis level, and hotLeads is exactly the returned
\* posts whose level is HIGH, in output order.
C22_EveryPostInOneGroup ==
    AIReturned =>
        LET out == aiOut[1]
            withLevel(l) == SelectSeq(out.posts, LAMBDA p : levelOf(p) = l)
        IN /\ "byIntentLevel" \in DOMAIN out
           /\ "hotLeads" \in DOMAIN out
           /\ out.byIntentLevel.HIGH + out.byIntentLevel.MEDIUM + out.byIntentLevel.LOW
                + out.byIntentLevel.NONE + out.byIntentLevel.UNSCORED = Len(out.posts)
           /\ out.byIntentLevel.HIGH = Len(withLevel("HIGH"))
           /\ out.byIntentLevel.MEDIUM = Len(withLevel("MEDIUM"))
           /\ out.byIntentLevel.LOW = Len(withLevel("LOW"))
           /\ out.byIntentLevel.NONE = Len(withLevel("NONE"))
           /\ out.byIntentLevel.UNSCORED = Len(withLevel(""))
           /\ out.hotLeads = withLevel("HIGH")

\* C23: with the scorer enabled, searchWithAI invokes the Intent Scorer on
\* the eligible posts (relevanceScore >= minRelevanceScore, up to
\* maxToScore) whenever the ranked result contains such posts, also when
\* another requested Source failed or was unknown.
C23_TriageDespiteSourceError ==
    (aiReq # <<>> /\ enabled /\ Len(EligiblePosts) > 0 /\ aiReq[1].maxToScore > 0) =>
        /\ Len(scorerLog) = 1
        /\ scorerLog[1] = Slice(EligiblePosts, aiReq[1].maxToScore)

----------------------------------------------------------------------------
(* Properties of the Intent Scorer, checked under SpecScorer               *)

\* A direct scorePost call returned after its request was answered
Answered ==
    /\ scoreCall # <<>>
    /\ scoreCall[1].pc = "returned"
    /\ scoreCall[1].outcome # <<>>
    /\ scoreCall[1].outcome[1].ok

\* C13: whatever body the model answers with (wrong-typed or missing
\* fields, text that is not JSON, a JSON value that is not an object),
\* scorePost returns an analysis with a non-null score and no error tag.
C13_MalformedPayloadRecovered ==
    Answered =>
        /\ scoreCall[1].result[1].score # <<>>
        /\ "error" \notin DOMAIN scoreCall[1].result[1]

\* The levels of the closed set, by score band
BandOf(score) ==
    IF score >= 80 THEN "HIGH"
    ELSE IF score >= 50 THEN "MEDIUM"
    ELSE IF score >= 20 THEN "LOW"
    ELSE "NONE"

\* C14: normalizeResult returns score as an integer in 0..100, level in
\* {HIGH, MEDIUM, LOW, NONE}, confidence in [0,1], urgency and
\* recommendedAction in their closed sets (defaults NONE and MONITOR), and
\* when the model's level is not in the closed set the level is the band of
\* the score.
C14_NormalizedDomains ==
    (Answered /\ scoreCall[1].outcome[1].content.json \in {"object", "primitive"}) =>
        LET body == scoreCall[1].outcome[1].content.body
            r == scoreCall[1].result[1]
            levels == {"HIGH", "MEDIUM", "LOW", "NONE"}
            urgencies == {"IMMEDIATE", "SHORT_TERM", "EXPLORING", "NONE"}
            actions == {"CONTACT_NOW", "NURTURE", "MONITOR", "SKIP"}
            given(x, set) == x.t = "string" /\ x.v \in set
        IN /\ r.score # <<>> /\ r.score[1] \in 0..100
           /\ r.level # <<>> /\ r.level[1] \in levels
           /\ r.confidence # <<>> /\ r.confidence[1] \in 0..100
           /\ r.urgency # <<>> /\ r.urgency[1] \in urgencies
           /\ r.recommendedAction # <<>> /\ r.recommendedAction[1] \in actions
           /\ ~given(body.urgency, urgencies) => r.urgency[1] = "NONE"
           /\ ~given(body.recommendedAction, actions) => r.recommendedAction[1] = "MONITOR"
           /\ given(body.level, levels) => r.level[1] = body.level.v
           /\ ~given(body.level, levels) => r.level[1] = BandOf(r.score[1])

\* The parsed response is already valid: score an integer in 0..100,
\* confidence a number in [0,1], level, urgency and recommendedAction in
\* their closed sets
ValidBody(body) ==
    /\ body.score.t = "number" /\ body.score.v \in 0..10000 /\ body.score.v % 100 = 0
    /\ body.confidence.t = "number" /\ body.confidence.v \in 0..100
    /\ body.level.t = "string" /\ body.level.v \in {"HIGH", "MEDIUM", "LOW", "NONE"}
    /\ body.urgency.t = "string"
    /\ body.urgency.v \in {"IMMEDIATE", "SHORT_TERM", "EXPLORING", "NONE"}
    /\ body.recommendedAction.t = "string"
    /\ body.recommendedAction.v \in {"CONTACT_NOW", "NURTURE", "MONITOR", "SKIP"}

\* C29: normalizeResult is the identity on already-valid responses (the
\* boundary values score 0 and confidence 0 included): the returned analysis
\* has the same score, level, confidence, urgency and recommendedAction.
C29_ValidResponseUnchanged ==
    (Answered /\ scoreCall[1].outcome[1].content.json = "object"
              /\ ValidBody(scoreCall[1].outcome[1].content.body)) =>
        LET body == scoreCall[1].outcome[1].content.body
            r == scoreCall[1].result[1]
        IN /\ r.score = << body.score.v \div 100 >>
           /\ r.level = << body.level.v >>
           /\ r.confidence = << body.confidence.v >>
           /\ r.urgency = << body.urgency.v >>
           /\ r.recommendedAction = << body.recommendedAction.v >>

\* C20: with the Intent Scorer disabled, scorePost and scoreBatch issue no
\* request and return the AI_DISABLED analysis for every post, in input
\* order; scoreBatch on an empty list returns an empty list with no request
\* and no pause, enabled or not.
C20_DisabledAndEmptyShortCircuit ==
    /\ ~enabled =>
          /\ llmCalls = 0
          /\ scoreCall # <<>> =>
                /\ scoreCall[1].pc = "returned"
                /\ scoreCall[1].result[1].score = <<>>
                /\ scoreCall[1].result[1].error = "AI_DISABLED"
          /\ batch # <<>> =>
                /\ batch[1].pc = "returned"
                /\ Len(batch[1].results) = Len(batch[1].posts)
                /\ \A k \in 1..Len(batch[1].results) :
                      /\ batch[1].results[k].ref = batch[1].posts[k].ref
                      /\ hasAnalysis(batch[1].results[k])
                      /\ batch[1].results[k].intentAnalysis.score = <<>>
                      /\ batch[1].results[k].intentAnalysis.error = "AI_DISABLED"
    /\ (batch # <<>> /\ Len(batch[1].posts) = 0) =>
          /\ batch[1].pc = "returned"
          /\ batch[1].results = <<>>
          /\ llmCalls = 0

\* The disabled scorer returned a batch of several posts
C20_Witness ==
    /\ ~enabled
    /\ batch # <<>>
    /\ batch[1].pc = "returned"
    /\ Len(batch[1].results) >= 2
    /\ batch[1].results[2].intentAnalysis.error = "AI_DISABLED"

----------------------------------------------------------------------------
(* Properties of detectSignals, checked under SpecSignals                  *)

C16_ScoreFormula ==
    \A k \in 1..Len(sigOut) :
        LET in == sigIn[1]
            out == sigOut[k]
            present(list) == {x \in Range(list) : toLowerCase(x) \in in.text}
            mk == Cardinality(present(in.criteria.keywords))
            mi == Cardinality(present(in.criteria.intentKeywords))
            mp == Cardinality(present(in.criteria.painKeywords))
            mc == Cardinality(present(in.criteria.competitors))
            total == Max(Len(in.criteria.keywords), 1)
            \* the sum before rounding is sum2 / (2 * total)
            sum2 == 80 * mk + total * (Min(25 * mi, 50) + Min(20 * mp, 40) + Min(30 * mc, 30))
            capped2 == Min(sum2, 200 * total)
            r == out.relevanceScore
        IN /\ Range(out.matchedKeywords) = present(in.criteria.keywords)
           /\ Range(out.matchedIntentKeywords) = present(in.criteria.intentKeywords)
           /\ Range(out.matchedPainKeywords) = present(in.criteria.painKeywords)
           /\ Range(out.matchedCompetitors) = present(in.criteria.competitors)
           \* r - 1/2 <= capped2 / (2 * total) < r + 1/2
           /\ (2 * r - 1) * total <= capped2
           /\ capped2 < (2 * r + 1) * total
           /\ Len(in.criteria.keywords) = 0 =>
                 r = (Min(25 * mi, 50) + Min(20 * mp, 40) + Min(30 * mc, 30) + 1) \div 2

\* One of one keyword and one intent keyword: 52.5, returned as 53
C16_Witness ==
    /\ Len(sigOut) >= 1
    /\ Len(sigIn[1].criteria.keywords) = 1
    /\ Len(sigOut[1].matchedKeywords) = 1
    /\ Len(sigOut[1].matchedIntentKeywords) = 1
    /\ Len(sigOut[1].matchedPainKeywords) = 0
    /\ Len(sigOut[1].matchedCompetitors) = 0
    /\ sigOut[1].relevanceScore = 53

\* C30: a post whose text matches at least one entry of any of the four
\* criteria lists gets relevanceScore >= 1 from detectSignals, for every
\* criteria size (long keyword lists of which a single keyword matches
\* included), and so passes the Source's relevanceScore > 0 filter.
C30_AnyMatchScoresPositive ==
    \A k \in 1..Len(sigOut) :
        LET in == sigIn[1]
            present(list) == {x \in Range(list) : toLowerCase(x) \in in.text}
            lists == {in.criteria.keywords, in.criteria.intentKeywords,
                      in.criteria.painKeywords, in.criteria.competitors}
        IN (\E list \in lists : present(list) # {}) => sigOut[k].relevanceScore >= 1

----------------------------------------------------------------------------
(* Properties of checkRateLimit, checked under SpecRate                    *)

\* C6: for each Source, the requests admitted by checkRateLimit within one
\* window (the 60 seconds following a window reset) never exceed the
\* Source's rateLimitPerMinute, for every interleaving of concurrent callers.
C6_WindowBudgetRespected ==
    \A p \in DOMAIN windowAdmits : windowAdmits[p] <= rateLimitPerMinute(p)

\* C19: a checkRateLimit call made when the window's budget is used up
\* suspends for a wait that is never negative (and at most the window), and
\* once the window has elapsed it returns with the request admitted.
C19_SuspendedCallReturns ==
    /\ [](\A c \in Callers : callers[c].waitTime \in 0..WindowMs)
    /\ \A c \in Callers :
          (callers[c].pc = "waiting") ~> (callers[c].pc = "idle")

\* A caller that was suspended for a positive wait has returned, admitted
C19_Witness ==
    \E c \in Callers :
        /\ callers[c].pc = "idle"
        /\ callers[c].waitTime > 0
        /\ now >= callers[c].wake
        /\ limiter[callers[c].platform].requestCount >= 1

====
